---- MODULE Spec2Model ----
(***************************************************************************)
(* The maintenance-history modal (components/HistoryModal.tsx): the view   *)
(* state kept in React state hooks, the derived collections computed by    *)
(* useMemo (processedHistory -> filteredHistory -> sortedHistory), the     *)
(* sort-header and filter handlers, and the edit flow that ends in the     *)
(* onUpdateHistory callback.                                               *)
(*                                                                         *)
(* Strings are modelled by what the code does with them:                   *)
(*   - display names are sequences of code units, compared as JavaScript   *)
(*     compares strings with < and >;                                      *)
(*   - a maintenanceDate is an ISO date-time string, kept as its day and   *)
(*     hour fields; the value of a date input is the empty string <<>> or  *)
(*     a date-only string <<day>>; new Date(..) turns either into a        *)
(*     timestamp (hours since day 0, UTC).                                 *)
(***************************************************************************)
EXTENDS Integers, Sequences, FiniteSets, TLC

(***************************************************************************)
(* Bounds of the model.                                                    *)
(***************************************************************************)
MaxEntries == 2

MaxDay == 1

MaxEditCount == 3

Today == 3

(***************************************************************************)
(* Program constants.                                                      *)
(***************************************************************************)
EditQuota == 2

HoursPerDay == 24

NULL == [null |-> TRUE]

QuaHan == "Qua han"

DungHan == "Dung han"

WorkshopIds == {"w1", "w2"}

WorkshopName == [w \in WorkshopIds |-> IF w = "w1" THEN <<88, 50>> ELSE <<88, 49>>]

Interval == [w \in WorkshopIds |-> IF w = "w1" THEN 1 ELSE 3]

SortKeys == {"workshopName", "equipmentName", "taskName", "maintenanceDate", "status"}

SortDirections == {"asc", "desc"}

UserRoles == {"editor", "viewer"}

Days == 0..MaxDay

Hours == {0, 12}

EquipmentNames == {<<65>>, <<65, 66>>}

TaskNames == {<<66>>, <<65, 67>>}

DateTimeStrings == [day : Days, hour : Hours]

DateInputValues == {<<>>} \cup {<<d>> : d \in Days}

(***************************************************************************)
(* new Date(s).getTime(): a date-only string is UTC midnight of its day,   *)
(* a date-time string is that day's midnight plus its time of day.         *)
(***************************************************************************)
DateOfInput(s) == s[1] * HoursPerDay

DateOfEntry(s) == s.day * HoursPerDay + s.hour

CalendarDay(s) == s.day

(***************************************************************************)
(* JavaScript's a < b on strings: code unit by code unit, a proper prefix  *)
(* is smaller.                                                             *)
(***************************************************************************)
RECURSIVE StrLess(_, _)
StrLess(a, b) ==
    IF b = <<>> THEN FALSE
    ELSE IF a = <<>> THEN TRUE
    ELSE IF Head(a) < Head(b) THEN TRUE
    ELSE IF Head(a) > Head(b) THEN FALSE
    ELSE StrLess(Tail(a), Tail(b))

(***************************************************************************)
(* calculateHistoryTimeliness(history, workshops): each entry joined with  *)
(* its workshop's name and interval; due day = maintenance day + interval; *)
(* overdue iff the evaluation day is past the due day.                     *)
(***************************************************************************)
Timeliness(e) ==
    LET due == CalendarDay(e.maintenanceDate) + Interval[e.workshopId]
    IN  [id              |-> e.id,
         workshopId      |-> e.workshopId,
         workshopName    |-> WorkshopName[e.workshopId],
         equipmentName   |-> e.equipmentName,
         taskName        |-> e.taskName,
         maintenanceDate |-> e.maintenanceDate,
         editCount       |-> e.editCount,
         status          |-> IF Today > due THEN QuaHan ELSE DungHan,
         overdueDays     |-> IF Today > due THEN Today - due ELSE 0]

calculateHistoryTimeliness(h) == [i \in 1..Len(h) |-> Timeliness(h[i])]

(***************************************************************************)
(* Variant: the filter callback without its workshop test.                 *)
(***************************************************************************)
FilterKeeps_AnyWorkshop(entry, workshop, start, end) ==
    IF start # <<>> \/ end # <<>>
    THEN LET entryDate == DateOfEntry(entry.maintenanceDate)
         IN  IF start # <<>> /\ entryDate < DateOfInput(start) THEN FALSE
             ELSE IF end # <<>> /\ entryDate > DateOfInput(end) THEN FALSE
             ELSE TRUE
    ELSE TRUE

(***************************************************************************)
(* The callback of processedHistory.filter(..), with its early returns.    *)
(***************************************************************************)
FilterKeeps(entry, workshop, start, end) ==
    IF workshop # "all" /\ entry.workshopId # workshop THEN FALSE
    ELSE IF start # <<>> \/ end # <<>>
         THEN LET entryDate == DateOfEntry(entry.maintenanceDate)
              IN  IF start # <<>> /\ entryDate < DateOfInput(start) THEN FALSE
                  ELSE IF end # <<>> /\ entryDate > DateOfInput(end) THEN FALSE
                  ELSE TRUE
         ELSE TRUE

(***************************************************************************)
(* Array.prototype.filter: visits the elements in index order and appends  *)
(* those the callback keeps.                                               *)
(***************************************************************************)
RECURSIVE FilterFrom(_, _, _, _, _)
FilterFrom(s, i, workshop, start, end) ==
    IF i > Len(s) THEN <<>>
    ELSE IF FilterKeeps(s[i], workshop, start, end)
         THEN <<s[i]>> \o FilterFrom(s, i + 1, workshop, start, end)
         ELSE FilterFrom(s, i + 1, workshop, start, end)

FilteredHistory(processed, workshop, start, end) ==
    FilterFrom(processed, 1, workshop, start, end)

(***************************************************************************)
(* Variant: the comparator with the signs of its two status rules swapped. *)
(***************************************************************************)
Compare_OnTimeFirst(a, b, key) ==
    IF key = "maintenanceDate"
    THEN DateOfEntry(a.maintenanceDate) - DateOfEntry(b.maintenanceDate)
    ELSE IF key = "status"
    THEN IF a.status = QuaHan /\ b.status # QuaHan THEN 1
         ELSE IF a.status # QuaHan /\ b.status = QuaHan THEN -1
         ELSE IF a.status = QuaHan /\ b.status = QuaHan
              THEN b.overdueDays - a.overdueDays
         ELSE 0
    ELSE IF StrLess(a[key], b[key]) THEN -1
         ELSE IF StrLess(b[key], a[key]) THEN 1
         ELSE 0

(***************************************************************************)
(* The comparator handed to sortable.sort(..): negative, zero or positive. *)
(***************************************************************************)
Compare(a, b, key) ==
    IF key = "maintenanceDate"
    THEN DateOfEntry(a.maintenanceDate) - DateOfEntry(b.maintenanceDate)
    ELSE IF key = "status"
    THEN IF a.status = QuaHan /\ b.status # QuaHan THEN -1
         ELSE IF a.status # QuaHan /\ b.status = QuaHan THEN 1
         ELSE IF a.status = QuaHan /\ b.status = QuaHan
              THEN b.overdueDays - a.overdueDays
         ELSE 0
    ELSE IF StrLess(a[key], b[key]) THEN -1
         ELSE IF StrLess(b[key], a[key]) THEN 1
         ELSE 0

(***************************************************************************)
(* Array.prototype.sort is stable: an element goes after every element     *)
(* already placed that does not compare greater than it.                   *)
(***************************************************************************)
RECURSIVE InsertSorted(_, _, _)
InsertSorted(sorted, x, key) ==
    IF sorted = <<>> THEN <<x>>
    ELSE IF Compare(Head(sorted), x, key) <= 0
         THEN <<Head(sorted)>> \o InsertSorted(Tail(sorted), x, key)
         ELSE <<x>> \o sorted

RECURSIVE SortFrom(_, _, _, _)
SortFrom(s, i, acc, key) ==
    IF i > Len(s) THEN acc
    ELSE SortFrom(s, i + 1, InsertSorted(acc, s[i], key), key)

Reverse(s) == [i \in 1..Len(s) |-> s[Len(s) + 1 - i]]

(***************************************************************************)
(* Variant: descending by sorting with the comparator's sign inverted      *)
(* instead of reversing the ascending result.                              *)
(***************************************************************************)
RECURSIVE InsertSortedInverted(_, _, _)
InsertSortedInverted(sorted, x, key) ==
    IF sorted = <<>> THEN <<x>>
    ELSE IF Compare(x, Head(sorted), key) <= 0
         THEN <<Head(sorted)>> \o InsertSortedInverted(Tail(sorted), x, key)
         ELSE <<x>> \o sorted

RECURSIVE SortInvertedFrom(_, _, _, _)
SortInvertedFrom(s, i, acc, key) ==
    IF i > Len(s) THEN acc
    ELSE SortInvertedFrom(s, i + 1, InsertSortedInverted(acc, s[i], key), key)

SortedHistory_InvertedComparator(filtered, key, direction) ==
    IF direction = "desc" THEN SortInvertedFrom(filtered, 1, <<>>, key)
    ELSE SortFrom(filtered, 1, <<>>, key)

(***************************************************************************)
(* Variant: the status order kept as the comparator gives it, whatever the *)
(* direction.                                                              *)
(***************************************************************************)
SortedHistory_StatusNotReversed(filtered, key, direction) ==
    LET sortable == SortFrom(filtered, 1, <<>>, key)
    IN  IF direction = "desc" /\ key # "status" THEN Reverse(sortable) ELSE sortable

SortedHistory(filtered, key, direction) ==
    LET sortable == SortFrom(filtered, 1, <<>>, key)
    IN  IF direction = "desc" THEN Reverse(sortable) ELSE sortable

(***************************************************************************)
(* Variant: an edit applied without looking at the quota.                  *)
(***************************************************************************)
applyEdit_Unguarded(e, newDate) ==
    [e EXCEPT !.maintenanceDate = newDate, !.editCount = e.editCount + 1]

(***************************************************************************)
(* onUpdateHistory(historyId, newDate), the callback the parent passes in: *)
(* the edit-quota guard.  A record with quota left gets the new date and   *)
(* one more edit counted; a record whose quota is used up is left as is.   *)
(***************************************************************************)
applyEdit(e, newDate) ==
    IF e.editCount >= EditQuota THEN e
    ELSE [e EXCEPT !.maintenanceDate = newDate, !.editCount = e.editCount + 1]

onUpdateHistory(h, historyId, newDate) ==
    [i \in 1..Len(h) |-> IF h[i].id = historyId THEN applyEdit(h[i], newDate) ELSE h[i]]

EditOutcome(h, historyId) ==
    IF \E i \in 1..Len(h) : h[i].id = historyId /\ h[i].editCount < EditQuota
    THEN "applied" ELSE "rejected"

(***************************************************************************)
(* Variants: a click on the active header that always ends in desc; a      *)
(* click on another header that keeps the direction.                       *)
(***************************************************************************)
handleSort_NoToggle(curKey, curDirection, key) ==
    IF curKey = key
    THEN [sortKey |-> curKey, sortDirection |-> "desc"]
    ELSE [sortKey |-> key, sortDirection |-> "asc"]

handleSort_KeepsDirection(curKey, curDirection, key) ==
    IF curKey = key
    THEN [sortKey |-> curKey,
          sortDirection |-> IF curDirection = "asc" THEN "desc" ELSE "asc"]
    ELSE [sortKey |-> key, sortDirection |-> curDirection]

(***************************************************************************)
(* handleSort(key): the values the two state setters leave behind.         *)
(***************************************************************************)
handleSort(curKey, curDirection, key) ==
    IF curKey = key
    THEN [sortKey |-> curKey,
          sortDirection |-> IF curDirection = "asc" THEN "desc" ELSE "asc"]
    ELSE [sortKey |-> key, sortDirection |-> "asc"]

(***************************************************************************)
(* Variant: the button disabled only when editCount equals the quota.      *)
(***************************************************************************)
EditButton_ExactQuota(entry, role) ==
    [rendered  |-> role = "editor",
     disabled  |-> entry.editCount = EditQuota,
     title     |-> IF entry.editCount = EditQuota
                   THEN [text |-> "exhausted", remaining |-> 0]
                   ELSE [text |-> "remaining", remaining |-> EditQuota - entry.editCount]]

(***************************************************************************)
(* The edit button of a table row: rendered for editors only, disabled     *)
(* once the quota is used, its title showing the edits left otherwise.     *)
(***************************************************************************)
EditButton(entry, role) ==
    [rendered  |-> role = "editor",
     disabled  |-> entry.editCount >= EditQuota,
     title     |-> IF entry.editCount >= EditQuota
                   THEN [text |-> "exhausted", remaining |-> 0]
                   ELSE [text |-> "remaining", remaining |-> EditQuota - entry.editCount]]

(***************************************************************************)
(* State: the props the parent supplies (history, userRole), whether the   *)
(* modal is mounted, and the component's state hooks.  lastSave records    *)
(* the guard's answer to the latest save submitted through the edit form.  *)
(***************************************************************************)
VARIABLES open, history, userRole, editingEntry, sortKey, sortDirection,
          startDate, endDate, selectedWorkshop, lastSave

vars == <<open, history, userRole, editingEntry, sortKey, sortDirection,
          startDate, endDate, selectedWorkshop, lastSave>>

hooks == <<editingEntry, sortKey, sortDirection, startDate, endDate, selectedWorkshop>>

processedHistory == calculateHistoryTimeliness(history)

filteredHistory == FilteredHistory(processedHistory, selectedWorkshop, startDate, endDate)

sortedHistory == SortedHistory(filteredHistory, sortKey, sortDirection)

TableRendered == open /\ Len(sortedHistory) > 0

FormPresented_AnyRole == open /\ editingEntry # NULL

FormPresented == open /\ editingEntry # NULL /\ userRole = "editor"

(***************************************************************************)
(* Histories the parent may hand over: ids are unique, here the position.  *)
(***************************************************************************)
WithIds(f) == [i \in 1..Len(f) |-> [id |-> i,
                                     workshopId      |-> f[i].workshopId,
                                     equipmentName   |-> f[i].equipmentName,
                                     taskName        |-> f[i].taskName,
                                     maintenanceDate |-> f[i].maintenanceDate,
                                     editCount       |-> f[i].editCount]]

HistoriesOver(S) == {WithIds(f) : f \in UNION {[1..n -> S] : n \in 0..MaxEntries}}

InitialHooks ==
    /\ editingEntry = NULL
    /\ sortKey = "maintenanceDate"
    /\ sortDirection = "desc"
    /\ startDate = <<>>
    /\ endDate = <<>>
    /\ selectedWorkshop = "all"

Entry(w, equipment, task, date, count) ==
    [workshopId |-> w, equipmentName |-> equipment, taskName |-> task,
     maintenanceDate |-> date, editCount |-> count]

(***************************************************************************)
(* The modal as mounted over a store of two records that were never        *)
(* edited, one per workshop.                                               *)
(***************************************************************************)
Init ==
    /\ open = TRUE
    /\ InitialHooks
    /\ lastSave = "none"
    /\ userRole \in UserRoles
    /\ history = WithIds(<<Entry("w1", <<65, 66>>, <<66>>, [day |-> 0, hour |-> 12], 0),
                           Entry("w2", <<65>>, <<66>>, [day |-> 1, hour |-> 12], 0)>>)

(***************************************************************************)
(* Handlers of the modal.                                                  *)
(***************************************************************************)
HandleSort(key) ==
    /\ UNCHANGED <<open, history, userRole, editingEntry, startDate, endDate,
                   selectedWorkshop, lastSave>>
    /\ sortKey' = handleSort(sortKey, sortDirection, key).sortKey
    /\ sortDirection' = handleSort(sortKey, sortDirection, key).sortDirection
    /\ TableRendered

SetSelectedWorkshop(w) ==
    /\ open
    /\ selectedWorkshop' = w
    /\ UNCHANGED <<open, history, userRole, editingEntry, sortKey, sortDirection,
                   startDate, endDate, lastSave>>

SetStartDate(v) ==
    /\ open
    /\ startDate' = v
    /\ UNCHANGED <<open, history, userRole, editingEntry, sortKey, sortDirection,
                   endDate, selectedWorkshop, lastSave>>

SetEndDate(v) ==
    /\ open
    /\ endDate' = v
    /\ UNCHANGED <<open, history, userRole, editingEntry, sortKey, sortDirection,
                   startDate, selectedWorkshop, lastSave>>

ClearFilters ==
    /\ open
    /\ startDate' = <<>>
    /\ endDate' = <<>>
    /\ selectedWorkshop' = "all"
    /\ UNCHANGED <<open, history, userRole, editingEntry, sortKey, sortDirection, lastSave>>

OpenEdit(i) ==
    /\ UNCHANGED <<open, history, userRole, sortKey, sortDirection, startDate, endDate,
                   selectedWorkshop, lastSave>>
    /\ TableRendered
    /\ i \in 1..Len(sortedHistory)
    /\ EditButton(sortedHistory[i], userRole).rendered
    /\ ~EditButton(sortedHistory[i], userRole).disabled
    /\ editingEntry' = sortedHistory[i]

CloseEdit ==
    /\ FormPresented
    /\ editingEntry' = NULL
    /\ UNCHANGED <<open, history, userRole, sortKey, sortDirection, startDate, endDate,
                   selectedWorkshop, lastSave>>

HandleSaveEdit(newDate) ==
    /\ UNCHANGED <<open, userRole, sortKey, sortDirection, startDate, endDate,
                   selectedWorkshop>>
    /\ FormPresented
    /\ history' = onUpdateHistory(history, editingEntry.id, newDate)
    /\ lastSave' = EditOutcome(history, editingEntry.id)
    /\ editingEntry' = NULL

OnClose ==
    /\ open
    /\ open' = FALSE
    /\ editingEntry' = NULL
    /\ sortKey' = "maintenanceDate"
    /\ sortDirection' = "desc"
    /\ startDate' = <<>>
    /\ endDate' = <<>>
    /\ selectedWorkshop' = "all"
    /\ UNCHANGED <<history, userRole, lastSave>>

(***************************************************************************)
(* The parent: mounts the modal, changes the role, and commits edits that  *)
(* reach the store by another path while the modal is showing.             *)
(***************************************************************************)
Mount ==
    /\ ~open
    /\ open' = TRUE
    /\ UNCHANGED <<history, userRole, hooks, lastSave>>

SetUserRole(r) ==
    /\ userRole # r
    /\ userRole' = r
    /\ UNCHANGED <<open, history, hooks, lastSave>>

HistoryUpdate(historyId, newDate) ==
    /\ EditOutcome(history, historyId) = "applied"
    /\ history' = onUpdateHistory(history, historyId, newDate)
    /\ UNCHANGED <<open, userRole, hooks, lastSave>>

NewDates == {[day |-> d, hour |-> 0] : d \in Days}

Next ==
    \/ \E key \in SortKeys : HandleSort(key)
    \/ \E w \in {"all"} \cup WorkshopIds : SetSelectedWorkshop(w)
    \/ \E v \in DateInputValues : SetStartDate(v)
    \/ \E v \in DateInputValues : SetEndDate(v)
    \/ ClearFilters
    \/ \E i \in 1..Len(sortedHistory) : OpenEdit(i)
    \/ CloseEdit
    \/ \E d \in NewDates : HandleSaveEdit(d)
    \/ OnClose
    \/ Mount
    \/ \E r \in UserRoles : SetUserRole(r)
    \/ \E i \in 1..Len(history), d \in NewDates : HistoryUpdate(history[i].id, d)

Spec == Init /\ [][Next]_vars

(***************************************************************************)
(* The filter alone: any history whose records differ in workshop and in   *)
(* maintenance date and time, under every sequence of filter changes.      *)
(***************************************************************************)
InitFilter ==
    /\ open = TRUE
    /\ InitialHooks
    /\ lastSave = "none"
    /\ userRole = "viewer"
    /\ history \in HistoriesOver([workshopId : WorkshopIds,
                                  equipmentName : {<<65>>},
                                  taskName : {<<66>>},
                                  maintenanceDate : DateTimeStrings,
                                  editCount : {0}])

NextFilter ==
    \/ \E w \in {"all"} \cup WorkshopIds : SetSelectedWorkshop(w)
    \/ \E v \in DateInputValues : SetStartDate(v)
    \/ \E v \in DateInputValues : SetEndDate(v)
    \/ ClearFilters

SpecFilter == InitFilter /\ [][NextFilter]_vars

(***************************************************************************)
(* The sorter alone: any history whose records differ in every sortable    *)
(* column, under every sequence of header clicks and workshop selections.  *)
(***************************************************************************)
InitSort ==
    /\ open = TRUE
    /\ InitialHooks
    /\ lastSave = "none"
    /\ userRole = "viewer"
    /\ history \in HistoriesOver([workshopId : WorkshopIds,
                                  equipmentName : EquipmentNames,
                                  taskName : TaskNames,
                                  maintenanceDate : [day : Days, hour : {12}],
                                  editCount : {0}])

NextSort ==
    \/ \E key \in SortKeys : HandleSort(key)
    \/ \E w \in {"all"} \cup WorkshopIds : SetSelectedWorkshop(w)

SpecSort == InitSort /\ [][NextSort]_vars

(***************************************************************************)
(* The edit flow alone, over stores whose records may already carry any    *)
(* edit count, also one beyond the quota.                                  *)
(***************************************************************************)
InitQuota ==
    /\ open = TRUE
    /\ InitialHooks
    /\ lastSave = "none"
    /\ userRole \in UserRoles
    /\ history \in HistoriesOver([workshopId : WorkshopIds,
                                  equipmentName : {<<65>>},
                                  taskName : {<<66>>},
                                  maintenanceDate : {[day |-> 0, hour |-> 12]},
                                  editCount : 0..MaxEditCount])

NextQuota ==
    \/ \E i \in 1..Len(sortedHistory) : OpenEdit(i)
    \/ CloseEdit
    \/ \E d \in NewDates : HandleSaveEdit(d)
    \/ \E r \in UserRoles : SetUserRole(r)
    \/ \E i \in 1..Len(history), d \in NewDates : HistoryUpdate(history[i].id, d)

SpecQuota == InitQuota /\ [][NextQuota]_vars

(***************************************************************************)
(* Helpers of the properties.                                              *)
(***************************************************************************)
Overdue(e) == e.status = QuaHan

OnTime(e) == e.status # QuaHan

PositionIn(s, e) == CHOOSE k \in 1..Len(s) : s[k].id = e.id

Shown(s, e) == \E k \in 1..Len(s) : s[k].id = e.id

WorkshopPasses(e) == selectedWorkshop = "all" \/ e.workshopId = selectedWorkshop

(***************************************************************************)
(* C1.  The edit quota is enforced when a save is submitted: always, no    *)
(* record has more than EditQuota edits, and a save submitted through the  *)
(* edit form for a record whose quota is used up leaves that record's      *)
(* editCount and maintenanceDate as they were, whatever editCount the      *)
(* form's snapshot was opened with.                                        *)
(***************************************************************************)
C1_QuotaAtSubmission ==
    /\ [](\A i \in 1..Len(history) : history[i].editCount <= EditQuota)
    /\ [][\A d \in NewDates :
            HandleSaveEdit(d) =>
                \A i \in 1..Len(history) :
                    (history[i].id = editingEntry.id /\ history[i].editCount >= EditQuota)
                    => /\ history'[i].editCount = history[i].editCount
                       /\ history'[i].maintenanceDate = history[i].maintenanceDate]_vars

(***************************************************************************)
(* A save has been submitted and rejected.  The edit button opens the form *)
(* only for a record with quota left, so the form's snapshot was stale.    *)
(***************************************************************************)
C1_StaleSaveRejected ==
    /\ lastSave = "rejected"
    /\ editingEntry = NULL
    /\ \E i \in 1..Len(history) : history[i].editCount = EditQuota

(***************************************************************************)
(* C8.  handleSort(key): on the active key the key stays and the direction *)
(* flips; on another key that key is selected with direction asc, whatever *)
(* the direction was.  The filter criteria and editingEntry stay put.      *)
(***************************************************************************)
C8_HandleSortTransition ==
    [][\A key \in SortKeys :
         HandleSort(key) =>
            /\ key = sortKey =>
                  /\ sortKey' = sortKey
                  /\ sortDirection' # sortDirection
                  /\ sortDirection' \in SortDirections
            /\ key # sortKey =>
                  /\ sortKey' = key
                  /\ sortDirection' = "asc"
            /\ selectedWorkshop' = selectedWorkshop
            /\ startDate' = startDate
            /\ endDate' = endDate
            /\ editingEntry' = editingEntry]_vars

(***************************************************************************)
(* A header other than the initial one was clicked while a filter was set  *)
(* and the edit form was open.                                             *)
(***************************************************************************)
C8_SortedWhileEditing ==
    /\ sortKey = "status"
    /\ sortDirection = "desc"
    /\ editingEntry # NULL
    /\ selectedWorkshop # "all"
    /\ startDate # <<>>

(***************************************************************************)
(* C10.  While userRole is viewer no step opens the edit form and no step  *)
(* submits a save, also when editingEntry was set before the role changed. *)
(***************************************************************************)
C10_ViewerCannotEdit ==
    [][userRole = "viewer" =>
         /\ \A i \in 1..Len(sortedHistory) : ~OpenEdit(i)
         /\ \A d \in NewDates : ~HandleSaveEdit(d)
         /\ (editingEntry = NULL => editingEntry' = NULL)
         /\ lastSave' = lastSave]_vars

(***************************************************************************)
(* The role became viewer while the edit form was open, and the viewer has *)
(* clicked sort headers and set filters since.                             *)
(***************************************************************************)
C10_ViewerWithFormSet ==
    /\ open
    /\ userRole = "viewer"
    /\ editingEntry # NULL
    /\ sortKey = "taskName"
    /\ endDate # <<>>

(***************************************************************************)
(* C2.  The date-range filter is inclusive at both ends by calendar date:  *)
(* an entry that passes the workshop filter and whose calendar day is not  *)
(* before the day of startDate and not after the day of endDate is in      *)
(* filteredHistory, whatever its time of day.                              *)
(***************************************************************************)
C2_InclusiveByCalendarDate ==
    \A i \in 1..Len(processedHistory) :
        LET e == processedHistory[i]
        IN  (/\ WorkshopPasses(e)
             /\ (startDate # <<>> => CalendarDay(e.maintenanceDate) >= startDate[1])
             /\ (endDate # <<>> => CalendarDay(e.maintenanceDate) <= endDate[1]))
            => Shown(filteredHistory, e)

(***************************************************************************)
(* C3.  With no date bound set, filteredHistory is the subsequence of      *)
(* processedHistory of the entries of the selected workshop, in their      *)
(* order: all of processedHistory under 'all', nothing when no entry is of *)
(* the selected workshop.                                                  *)
(***************************************************************************)
C3_WorkshopFilter ==
    (startDate = <<>> /\ endDate = <<>>) =>
        /\ filteredHistory = SelectSeq(processedHistory, WorkshopPasses)
        /\ selectedWorkshop = "all" => filteredHistory = processedHistory
        /\ (\A i \in 1..Len(processedHistory) :
                processedHistory[i].workshopId # selectedWorkshop)
           /\ selectedWorkshop # "all"
           => filteredHistory = <<>>
        /\ \A i, j \in 1..Len(filteredHistory) :
              i < j => PositionIn(processedHistory, filteredHistory[i])
                       < PositionIn(processedHistory, filteredHistory[j])

(***************************************************************************)
(* A workshop is selected that some entries belong to and others do not.   *)
(***************************************************************************)
C3_WorkshopSelected ==
    /\ startDate = <<>>
    /\ endDate = <<>>
    /\ selectedWorkshop = "w2"
    /\ 0 < Len(filteredHistory)
    /\ Len(filteredHistory) < Len(processedHistory)

(***************************************************************************)
(* C4.  Sorted by status ascending: no on-time entry comes before an       *)
(* overdue one, of two overdue entries the one with more overdue days does *)
(* not come later, and entries that compare equal keep the order they have *)
(* in filteredHistory.                                                     *)
(***************************************************************************)
C4_StatusAscending ==
    (sortKey = "status" /\ sortDirection = "asc") =>
        /\ Len(sortedHistory) = Len(filteredHistory)
        /\ \A i, j \in 1..Len(sortedHistory) :
              i < j =>
                LET a == sortedHistory[i]
                    b == sortedHistory[j]
                IN  /\ ~(OnTime(a) /\ Overdue(b))
                    /\ (Overdue(a) /\ Overdue(b)) => a.overdueDays >= b.overdueDays
                    /\ (\/ OnTime(a) /\ OnTime(b)
                        \/ Overdue(a) /\ Overdue(b) /\ a.overdueDays = b.overdueDays)
                       => PositionIn(filteredHistory, a) < PositionIn(filteredHistory, b)

(***************************************************************************)
(* The status header was clicked and the sort moved an overdue entry in    *)
(* front of an on-time one.                                                *)
(***************************************************************************)
C4_StatusSortReorders ==
    /\ sortKey = "status"
    /\ sortDirection = "asc"
    /\ Len(sortedHistory) >= 2
    /\ sortedHistory # filteredHistory
    /\ Overdue(sortedHistory[1])
    /\ OnTime(sortedHistory[Len(sortedHistory)])

(***************************************************************************)
(* C5.  Under direction desc, sortedHistory is the ascending sort of the   *)
(* same input read backwards, for every sort key; so entries with equal    *)
(* keys appear in the reverse of their order in filteredHistory.           *)
(***************************************************************************)
C5_DescendingIsReverse ==
    sortDirection = "desc" =>
        LET asc == SortedHistory(filteredHistory, sortKey, "asc")
            n   == Len(asc)
        IN  /\ Len(sortedHistory) = n
            /\ \A i \in 1..n : sortedHistory[i] = asc[n + 1 - i]
            /\ \A i, j \in 1..n :
                  (i < j /\ Compare(sortedHistory[i], sortedHistory[j], sortKey) = 0)
                  => PositionIn(filteredHistory, sortedHistory[i])
                     > PositionIn(filteredHistory, sortedHistory[j])

(***************************************************************************)
(* A header was clicked twice, and two shown entries have equal keys.      *)
(***************************************************************************)
C5_DescendingWithTie ==
    /\ sortDirection = "desc"
    /\ sortKey = "equipmentName"
    /\ Len(sortedHistory) >= 2
    /\ Compare(sortedHistory[1], sortedHistory[2], sortKey) = 0

(***************************************************************************)
(* C6 as stated: sorted by status, no on-time entry comes before an        *)
(* overdue one, in either direction.                                       *)
(***************************************************************************)
C6_OverdueFirstAnyDirection ==
    sortKey = "status" =>
        \A i, j \in 1..Len(sortedHistory) :
            i < j => ~(OnTime(sortedHistory[i]) /\ Overdue(sortedHistory[j]))

(***************************************************************************)
(* C6 as amended: sorted by status, the direction decides which group      *)
(* leads: under asc no on-time entry comes before an overdue one, under    *)
(* desc no overdue entry comes before an on-time one.                      *)
(***************************************************************************)
C6_DirectionDecidesGroupOrder ==
    sortKey = "status" =>
        \A i, j \in 1..Len(sortedHistory) :
            i < j =>
                /\ sortDirection = "asc"
                   => ~(OnTime(sortedHistory[i]) /\ Overdue(sortedHistory[j]))
                /\ sortDirection = "desc"
                   => ~(Overdue(sortedHistory[i]) /\ OnTime(sortedHistory[j]))

(***************************************************************************)
(* Sorted by status descending with entries of both groups shown.          *)
(***************************************************************************)
C6_StatusDescendingMixed ==
    /\ sortKey = "status"
    /\ sortDirection = "desc"
    /\ \E i, j \in 1..Len(sortedHistory) :
          OnTime(sortedHistory[i]) /\ Overdue(sortedHistory[j])

(***************************************************************************)
(* C7.  Two clicks in a row on the active sort header bring sortDirection  *)
(* and sortedHistory back to what they were; after the first of them the   *)
(* direction is the other one.                                             *)
(***************************************************************************)
C7_SortToggleRoundTrip ==
    TableRendered =>
        LET once  == handleSort(sortKey, sortDirection, sortKey)
            twice == handleSort(once.sortKey, once.sortDirection, once.sortKey)
        IN  /\ once.sortKey = sortKey
            /\ once.sortDirection # sortDirection
            /\ twice.sortKey = sortKey
            /\ twice.sortDirection = sortDirection
            /\ SortedHistory(filteredHistory, twice.sortKey, twice.sortDirection)
               = sortedHistory

(***************************************************************************)
(* The active header was clicked, and the order shown is neither the       *)
(* input's nor the input's reversed.                                       *)
(***************************************************************************)
C7_ToggledOrder ==
    /\ TableRendered
    /\ sortKey = "workshopName"
    /\ sortDirection = "desc"
    /\ Len(sortedHistory) >= 2
    /\ sortedHistory # SortedHistory(filteredHistory, sortKey, "asc")

(***************************************************************************)
(* C9.  For every row shown to an editor, the edit button can be used iff  *)
(* the entry's editCount is below the quota, and the title shows edits     *)
(* left only on a usable button, where the figure is quota - editCount and *)
(* at least 1.                                                             *)
(***************************************************************************)
C9_EditAffordance ==
    TableRendered =>
        \A i \in 1..Len(sortedHistory) :
            LET e == sortedHistory[i]
                b == EditButton(e, userRole)
            IN  b.rendered =>
                  /\ ~b.disabled <=> e.editCount < EditQuota
                  /\ b.title.text = "remaining" =>
                        /\ ~b.disabled
                        /\ b.title.remaining = EditQuota - e.editCount
                        /\ b.title.remaining >= 1

(***************************************************************************)
(* An editor is shown a record with more edits than the quota beside one   *)
(* that an edit made through the form has brought to one edit left.        *)
(***************************************************************************)
C9_OverQuotaRowShown ==
    /\ TableRendered
    /\ userRole = "editor"
    /\ lastSave = "applied"
    /\ \E i, j \in 1..Len(sortedHistory) :
          /\ sortedHistory[i].editCount > EditQuota
          /\ sortedHistory[j].editCount = EditQuota - 1

====
